---- MODULE Spec2Model ----
(***************************************************************************)
(* Model of build_colab.py: one sequential procedure that checks the       *)
(* environment, installs the build dependencies with pip, prepares the     *)
(* output directory, removes stale build/dist/*.egg-info entries, invokes  *)
(* setup.py bdist_wheel, and copies the wheels found in dist/ to the       *)
(* output directory.                                                       *)
(*                                                                         *)
(* The file system is a map from absolute paths to nodes.  A file name is  *)
(* the pair <<stem, extension>>, so that glob patterns are matched on the  *)
(* name and not looked up.  pip, setup.py and the importability of torch   *)
(* are the environment: their outcomes are chosen nondeterministically.    *)
(***************************************************************************)
EXTENDS Integers, Sequences, FiniteSets, TLC

VARIABLES
    argv,    \* sys.argv
    fs,      \* the file system: path -> node
    pc,      \* position of the run in main()
    dep,     \* index of the next dependency to install
    pat,     \* index of the next cleanup pattern
    wheels,  \* the list `wheels` of build_wheel
    wi,      \* index of the next wheel to copy
    status,  \* exit status of the process (NoStatus while it runs)
    log,     \* side effects and output of the current run, in order
    run      \* number of the current invocation of the script

vars == <<argv, fs, pc, dep, pat, wheels, wi, status, log, run>>

\* Number of consecutive invocations of the script that are explored.
MaxRuns == 2

NoStatus == 0 - 1

-----------------------------------------------------------------------------
(* Names and paths *)

N(s) == <<s, "">>

\* The working directory of the process.
Cwd == <<N("repo")>>

BuildP == Cwd \o <<N("build")>>
DistP  == Cwd \o <<N("dist")>>
EggP   == Cwd \o <<<<"block_sparse_attn", "egg-info">>>>

\* Names of the wheels a build can deposit in dist/.
WheelNames == {<<"a", "whl">>, <<"b", "whl">>}

Rel(parts) == [abs |-> FALSE, parts |-> parts]
Abs(parts) == [abs |-> TRUE, parts |-> parts]

\* sys.argv[0]
Script == Rel(<<<<"build_colab", "py">>>>)

\* The values of sys.argv[1] that are explored.
OutDirs ==
    { Rel(<<N("out")>>),
      Abs(<<N("drive"), N("wheels")>>),
      Rel(<<N("dist")>>),
      Rel(<<N("build"), N("w")>>),
      Abs(Cwd \o <<N("build")>>) }

\* Path.absolute(): a relative path is taken from the working directory.
Resolve(p) == IF p.abs THEN p.parts ELSE Cwd \o p.parts

Prefixes(p) == {SubSeq(p, 1, k) : k \in 0..Len(p)}

IsPrefix(p, q) == Len(p) <= Len(q) /\ SubSeq(q, 1, Len(p)) = p

Parent(p) == SubSeq(p, 1, Len(p) - 1)

Paths ==
    UNION {Prefixes(p) :
             p \in {Resolve(o) \o <<w>> : o \in OutDirs, w \in WheelNames}
                   \cup {DistP \o <<w>> : w \in WheelNames}
                   \cup {BuildP, EggP}}

-----------------------------------------------------------------------------
(* File system nodes and operations *)

Absent  == [kind |-> "absent", data |-> 0]
Dir     == [kind |-> "dir", data |-> 0]
Other   == [kind |-> "other", data |-> 0]  \* neither directory nor regular file
DirLink == [kind |-> "dirlink", data |-> 0]  \* symbolic link to a directory
File(d) == [kind |-> "file", data |-> d]   \* d: the run whose build wrote it, 0 if older

\* Path.is_dir() follows symbolic links.
IsDir(f, p)  == f[p].kind \in {"dir", "dirlink"}
IsFile(f, p) == f[p].kind = "file"
Exists(f, p) == f[p].kind # "absent"

\* Path.mkdir(parents=True, exist_ok=True): fails when the path or one of its
\* ancestors exists and is not a directory.
MkdirOk(f, p) == \A q \in Prefixes(p) : ~Exists(f, q) \/ IsDir(f, q)

MkdirP(f, p) == [q \in Paths |-> IF q \in Prefixes(p) /\ ~Exists(f, q) THEN Dir ELSE f[q]]

\* shutil.rmtree(p) raises OSError when p is a symbolic link.
RmtreeOk(f, p) == f[p].kind # "dirlink"

\* shutil.rmtree(p)
Rmtree(f, p) == [q \in Paths |-> IF IsPrefix(p, q) THEN Absent ELSE f[q]]

\* Path.unlink()
Unlink(f, p) == [f EXCEPT ![p] = Absent]

\* fnmatch of one path component against a pattern <<stem, extension>>.
Match(pattern, name) ==
    /\ pattern[1] = "*" \/ pattern[1] = name[1]
    /\ pattern[2] = name[2]

\* Path(d).glob(pattern): the entries of d whose name matches.
Glob(f, d, pattern) ==
    IF IsDir(f, d)
    THEN {q \in Paths : /\ Len(q) = Len(d) + 1
                        /\ IsPrefix(d, q)
                        /\ Exists(f, q)
                        /\ Match(pattern, q[Len(q)])}
    ELSE {}

\* shutil.copy2(src, dst) raises SameFileError when both name the same file
\* and FileNotFoundError when the directory of dst does not exist.
CopyOk(f, src, dst) == src # dst /\ IsDir(f, Parent(dst))

Copy2(f, src, dst) == [f EXCEPT ![dst] = f[src]]

-----------------------------------------------------------------------------
(* Program constants *)

\* install_build_dependencies: dependencies
Dependencies == <<"setuptools>=68.0.0", "wheel", "ninja", "packaging">>

\* CleanPatterns without 'dist'.
CleanPatterns_NoDist == <<N("build"), <<"*", "egg-info">>, <<"*", "egg-info">>>>

\* build_wheel: the patterns of the cleanup loop, in order
CleanPatterns == <<N("build"), N("dist"), <<"*", "egg-info">>>>

WheelPattern == <<"*", "whl">>

\* build_wheel: output_path
OutputPath == Resolve(argv[2])

\* One entry of the log.
Ev(op, path, name, n) == [op |-> op, path |-> path, name |-> name, n |-> n]

\* sys.exit(code), or an uncaught exception (code 1).
Exit(code) == pc' = "exit" /\ status' = code

-----------------------------------------------------------------------------
(* The initial states: any command line, any stale entries in the working
   directory, the output directory present or not *)

EntryKinds == {Absent, Dir, File(0), Other, DirLink}

StartFS(kb, kd, ke, stale) ==
    [q \in Paths |->
        IF q = <<>> \/ q = Cwd THEN Dir
        ELSE IF q = BuildP THEN kb
        ELSE IF q = DistP THEN kd
        ELSE IF q = EggP THEN ke
        ELSE IF kd = Dir /\ stale /\ q = DistP \o <<<<"a", "whl">>>> THEN File(0)
        ELSE Absent]

Init ==
    /\ argv \in {<<Script>>} \cup {<<Script, o>> : o \in OutDirs}
    /\ \E kb \in EntryKinds, kd \in EntryKinds, ke \in EntryKinds,
          stale \in BOOLEAN, present \in BOOLEAN :
          LET f == StartFS(kb, kd, ke, stale) IN
          /\ stale => kd = Dir
          /\ present => Len(argv) = 2 /\ MkdirOk(f, Resolve(argv[2]))
          /\ fs = IF present THEN MkdirP(f, Resolve(argv[2])) ELSE f
    /\ pc = "main"
    /\ dep = 1
    /\ pat = 1
    /\ wheels = <<>>
    /\ wi = 1
    /\ status = NoStatus
    /\ log = <<>>
    /\ run = 1

-----------------------------------------------------------------------------
(* main *)

\* Main with the test written as len(sys.argv) < 1.
Main_OffByOne ==
    /\ pc = "main"
    /\ IF Len(argv) < 1
       THEN /\ log' = Append(log, Ev("usage", <<>>, "", 0))
            /\ Exit(1)
       ELSE /\ pc' = "check"
            /\ UNCHANGED <<log, status>>
    /\ UNCHANGED <<argv, fs, dep, pat, wheels, wi, run>>

\* main, lines 140-146: the usage exit when no output directory is given.
Main ==
    /\ pc = "main"
    /\ IF Len(argv) < 2
       THEN /\ log' = Append(log, Ev("usage", <<>>, "", 0))
            /\ Exit(1)
       ELSE /\ pc' = "check"
            /\ UNCHANGED <<log, status>>
    /\ UNCHANGED <<argv, fs, dep, pat, wheels, wi, run>>

\* CheckEnv followed directly by build_wheel, the install step left out.
CheckEnv_SkipInstall ==
    /\ pc = "check"
    /\ \E torch \in BOOLEAN :
          /\ log' = Append(log, Ev("check", <<>>, "torch", IF torch THEN 1 ELSE 0))
          /\ IF torch
             THEN pc' = "mkdir" /\ dep' = 1 /\ UNCHANGED status
             ELSE Exit(1) /\ UNCHANGED dep
    /\ UNCHANGED <<argv, fs, pat, wheels, wi, run>>

\* check_colab_environment: only a missing torch ends the run; the other
\* findings (google.colab, CUDA, CUDA_HOME) are printed and change nothing.
CheckEnv ==
    /\ pc = "check"
    /\ \E torch \in BOOLEAN :
          /\ log' = Append(log, Ev("check", <<>>, "torch", IF torch THEN 1 ELSE 0))
          /\ IF torch
             THEN pc' = "install" /\ dep' = 1 /\ UNCHANGED status
             ELSE Exit(1) /\ UNCHANGED dep
    /\ UNCHANGED <<argv, fs, pat, wheels, wi, run>>

\* InstallDep with subprocess.call: the exit code of pip is not looked at.
InstallDep_IgnoreExit ==
    /\ pc = "install"
    /\ \E rc \in {0, 1} :
          /\ log' = Append(log, Ev("pip", <<>>, Dependencies[dep], rc))
          /\ dep' = dep + 1
          /\ pc' = IF dep = Len(Dependencies) THEN "mkdir" ELSE "install"
          /\ UNCHANGED status
    /\ UNCHANGED <<argv, fs, pat, wheels, wi, run>>

\* install_build_dependencies: one pip call per iteration of the loop;
\* check_call raises on a non-zero exit and nothing catches it.
InstallDep ==
    /\ pc = "install"
    /\ \E rc \in {0, 1} :
          /\ log' = Append(log, Ev("pip", <<>>, Dependencies[dep], rc))
          /\ IF rc # 0
             THEN Exit(1) /\ UNCHANGED dep
             ELSE /\ dep' = dep + 1
                  /\ pc' = IF dep = Len(Dependencies) THEN "mkdir" ELSE "install"
                  /\ UNCHANGED status
    /\ UNCHANGED <<argv, fs, pat, wheels, wi, run>>

-----------------------------------------------------------------------------
(* build_wheel *)

\* build_wheel, lines 88-91
EnsureOutputDir ==
    /\ pc = "mkdir"
    /\ IF MkdirOk(fs, OutputPath)
       THEN /\ fs' = MkdirP(fs, OutputPath)
            /\ log' = Append(log, Ev("mkdir", OutputPath, "", 0))
            /\ pc' = "clean"
            /\ pat' = 1
            /\ UNCHANGED status
       ELSE /\ Exit(1)
            /\ UNCHANGED <<fs, log, pat>>
    /\ UNCHANGED <<argv, dep, wheels, wi, run>>

\* Remove without the elif branch: only directories are removed.
Remove_DirsOnly(f, p) ==
    IF IsDir(f, p) THEN Rmtree(f, p) ELSE f

\* The body of the cleanup loop for one path, lines 97-102.
Remove(f, p) ==
    IF IsDir(f, p) THEN Rmtree(f, p)
    ELSE IF IsFile(f, p) THEN Unlink(f, p)
    ELSE f

\* The "Removed ..." line printed for one path; it is given the number of
\* wheels the removed entry held.
RemovedLog(f, p) ==
    IF IsDir(f, p) \/ IsFile(f, p)
    THEN <<Ev("rm", p, "", Cardinality(Glob(f, p, WheelPattern)))>>
    ELSE <<>>

\* The inner cleanup loop over the paths S of one pattern, lines 96-102,
\* from file system f and log l: it stops at the first rmtree that raises.
RECURSIVE RemoveAll(_, _, _)
RemoveAll(f, l, S) ==
    IF S = {} THEN [fs |-> f, log |-> l, ok |-> TRUE]
    ELSE LET p == CHOOSE x \in S : TRUE IN
         IF IsDir(f, p) /\ ~RmtreeOk(f, p)
         THEN [fs |-> f, log |-> l, ok |-> FALSE]
         ELSE RemoveAll(Remove(f, p), l \o RemovedLog(f, p), S \ {p})

\* One iteration of the outer cleanup loop, lines 95-102.
CleanStep ==
    /\ pc = "clean"
    /\ LET done == RemoveAll(fs, log, Glob(fs, Cwd, CleanPatterns[pat])) IN
          /\ fs' = done.fs
          /\ log' = done.log
          /\ IF done.ok
             THEN /\ pat' = pat + 1
                  /\ pc' = IF pat = Len(CleanPatterns) THEN "build" ELSE "clean"
                  /\ UNCHANGED status
             ELSE /\ Exit(1)
                  /\ UNCHANGED pat
    /\ UNCHANGED <<argv, dep, wheels, wi, run>>

\* What one run of setup.py bdist_wheel can do: its exit code, whether it
\* leaves build/ and the egg-info directory, whether it makes dist/ and
\* which wheels it puts there.
BuildOutcomes ==
    {o \in [rc : {0, 1}, scaffold : BOOLEAN, mkdist : BOOLEAN, made : SUBSET WheelNames] :
        o.made # {} => o.mkdist}

BuildFS(f, o) ==
    [q \in Paths |->
        IF o.scaffold /\ q \in {BuildP, EggP} /\ ~Exists(f, q) THEN Dir
        ELSE IF o.mkdist /\ q = DistP THEN Dir
        ELSE IF o.mkdist /\ \E w \in o.made : q = DistP \o <<w>> THEN File(run)
        ELSE f[q]]

\* InvokeBuild with subprocess.call: a failed build is not noticed.
InvokeBuild_IgnoreExit ==
    /\ pc = "build"
    /\ \E o \in BuildOutcomes :
          /\ o.mkdist => fs[DistP].kind \in {"absent", "dir"}
          /\ fs' = BuildFS(fs, o)
          /\ log' = Append(log, Ev("build", <<>>, "", o.rc))
          /\ pc' = "find"
          /\ UNCHANGED status
    /\ UNCHANGED <<argv, dep, pat, wheels, wi, run>>

\* build_wheel, lines 106-114 and 133-135
InvokeBuild ==
    /\ pc = "build"
    /\ \E o \in BuildOutcomes :
          /\ o.mkdist => fs[DistP].kind \in {"absent", "dir"}
          /\ fs' = BuildFS(fs, o)
          /\ log' = Append(log, Ev("build", <<>>, "", o.rc))
          /\ IF o.rc # 0
             THEN Exit(1)
             ELSE pc' = "find" /\ UNCHANGED status
    /\ UNCHANGED <<argv, dep, pat, wheels, wi, run>>

\* The lists a directory scan can return for a set of paths.
Orderings(S) ==
    {s \in [1..Cardinality(S) -> S] : \A a, b \in 1..Cardinality(S) : a # b => s[a] # s[b]}

\* FindWheels with sys.exit() in place of sys.exit(1).
FindWheels_ExitZero ==
    /\ pc = "find"
    /\ \E ws \in Orderings(Glob(fs, DistP, WheelPattern)) :
          /\ wheels' = ws
          /\ log' = Append(log, Ev("glob", DistP, "", Len(ws)))
          /\ IF Len(ws) = 0
             THEN Exit(0) /\ UNCHANGED wi
             ELSE pc' = "copy" /\ wi' = 1 /\ UNCHANGED status
    /\ UNCHANGED <<argv, fs, dep, pat, run>>

\* build_wheel, lines 116-122
FindWheels ==
    /\ pc = "find"
    /\ \E ws \in Orderings(Glob(fs, DistP, WheelPattern)) :
          /\ wheels' = ws
          /\ log' = Append(log, Ev("glob", DistP, "", Len(ws)))
          /\ IF Len(ws) = 0
             THEN Exit(1) /\ UNCHANGED wi
             ELSE pc' = "copy" /\ wi' = 1 /\ UNCHANGED status
    /\ UNCHANGED <<argv, fs, dep, pat, run>>

\* build_wheel: dest of the wheel being copied
Dest == OutputPath \o <<wheels[wi][Len(wheels[wi])]>>

\* One iteration of the copy loop, lines 125-129.
CopyWheel ==
    /\ pc = "copy"
    /\ IF CopyOk(fs, wheels[wi], Dest)
       THEN /\ fs' = Copy2(fs, wheels[wi], Dest)
            /\ log' = Append(log, Ev("copy", Dest, "", fs[wheels[wi]].data))
            /\ wi' = wi + 1
            /\ pc' = IF wi = Len(wheels) THEN "report" ELSE "copy"
            /\ UNCHANGED status
       ELSE /\ Exit(1)
            /\ UNCHANGED <<fs, log, wi>>
    /\ UNCHANGED <<argv, dep, pat, wheels, run>>

\* main, lines 161-167: the completion report, then the normal end.
Report ==
    /\ pc = "report"
    /\ log' = Append(log, Ev("complete", OutputPath \o <<wheels[1][Len(wheels[1])]>>, "", 0))
    /\ Exit(0)
    /\ UNCHANGED <<argv, fs, dep, pat, wheels, wi, run>>

\* The script is started again with the same command line, on the file
\* system the previous run left.
Rerun ==
    /\ pc = "exit"
    /\ run < MaxRuns
    /\ run' = run + 1
    /\ pc' = "main"
    /\ dep' = 1
    /\ pat' = 1
    /\ wheels' = <<>>
    /\ wi' = 1
    /\ status' = NoStatus
    /\ log' = <<>>
    /\ UNCHANGED <<argv, fs>>

Next ==
    \/ Main
    \/ CheckEnv
    \/ InstallDep
    \/ EnsureOutputDir
    \/ CleanStep
    \/ InvokeBuild
    \/ FindWheels
    \/ CopyWheel
    \/ Report
    \/ Rerun

Spec == Init /\ [][Next]_vars

-----------------------------------------------------------------------------
(* Vocabulary of the properties *)

\* The run was started with an output directory argument.
HasArg == Len(argv) >= 2

Events(op) == {j \in 1..Len(log) : log[j].op = op}

\* The pip invocations of the run, in order.
PipCalls == SelectSeq(log, LAMBDA e : e.op = "pip")

TorchImportable == \E j \in Events("check") : log[j].n = 1

InstallsSucceeded ==
    /\ Len(PipCalls) = Len(Dependencies)
    /\ \A j \in 1..Len(PipCalls) : PipCalls[j].n = 0

BuildSucceeded == \E j \in Events("build") : log[j].n = 0

BuildFailed == \E j \in Events("build") : log[j].n # 0

\* The entries of the working directory that a cleanup pattern matches.
CleanTargets == UNION {Glob(fs, Cwd, CleanPatterns[j]) : j \in 1..Len(CleanPatterns)}

\* The phase of the run, in the words of the specification.
Phase ==
    CASE pc = "main" -> "START"
      [] pc = "check" -> "CHECKING"
      [] pc = "install" -> "INSTALLING"
      [] pc \in {"mkdir", "clean", "build", "find", "copy"} -> "BUILDING"
      [] pc = "report" -> "DONE"
      [] pc = "exit" /\ status = 0 -> "DONE"
      [] OTHER -> "FAILED"

-----------------------------------------------------------------------------
(* The properties *)

\* C1: when torch is importable, every pip call exits 0 and the build exits
\* 0 leaving exactly one wheel in dist/, the script exits 0 and the output
\* directory holds a file of the wheel's name with the wheel's content.
C1_ArtifactDelivered ==
    (/\ pc = "exit"
     /\ HasArg
     /\ TorchImportable
     /\ InstallsSucceeded
     /\ BuildSucceeded
     /\ Len(wheels) = 1)
    => /\ status = 0
       /\ LET dest == OutputPath \o <<wheels[1][Len(wheels[1])]>> IN
          /\ IsFile(fs, dest)
          /\ fs[dest] = fs[wheels[1]]

\* C2: once the build has exited non-zero the run is over with exit status
\* 1, nothing was copied in that run, and the build was invoked once.
C2_BuildFailureIsFatal ==
    BuildFailed =>
        /\ pc = "exit"
        /\ status = 1
        /\ Events("copy") = {}
        /\ Cardinality(Events("build")) = 1

\* A failed build that left a wheel in dist/ all the same.
C2_Witness ==
    /\ BuildFailed
    /\ pc = "exit"
    /\ Glob(fs, DistP, WheelPattern) # {}

\* C3: when the build exited 0 and dist/ holds no *.whl once it has been
\* scanned, the run is over with exit status 1, nothing was copied and the
\* completion report was not printed.
C3_NoWheelIsFatal ==
    (/\ BuildSucceeded
     /\ pc # "find"
     /\ Glob(fs, DistP, WheelPattern) = {})
    => /\ pc = "exit"
       /\ status = 1
       /\ Events("copy") = {}
       /\ Events("complete") = {}

\* A build that exited 0, made dist/ and put no wheel in it.
C3_Witness ==
    /\ BuildSucceeded
    /\ pc = "exit"
    /\ IsDir(fs, DistP)
    /\ Glob(fs, DistP, WheelPattern) = {}

\* C4: without a command-line argument the run goes from its start straight
\* to exit status 1, the usage text is all it has done, and no step of it
\* changes the file system.
C4_UsageExitOnly ==
    /\ [](~HasArg =>
            \/ pc = "main" /\ log = <<>> /\ status = NoStatus
            \/ pc = "exit" /\ status = 1 /\ log = <<Ev("usage", <<>>, "", 0)>>)
    /\ [][~HasArg => fs' = fs]_vars

\* The usage exit has been taken in a working directory with stale entries.
C4_Witness ==
    /\ ~HasArg
    /\ pc = "exit"
    /\ IsDir(fs, DistP)
    /\ IsDir(fs, BuildP)

\* C5: for every output directory, when torch is importable, the installs
\* succeed and the build exits 0 leaving a wheel, the run exits 0 and the
\* output directory exists; this holds for the second run as for the first.
C5_AnyDestinationSucceeds ==
    (/\ pc = "exit"
     /\ HasArg
     /\ BuildSucceeded
     /\ Len(wheels) >= 1)
    => /\ status = 0
       /\ IsDir(fs, OutputPath)

\* C6 as stated: when the build is invoked the working directory has no
\* entry at all named build, dist or *.egg-info.  (Only the start of a run
\* puts an entry that is neither directory nor file there, so an entry that
\* is left is one from before the run.)
C6_NoStaleEntryAtBuild ==
    pc = "build" => \A p \in CleanTargets : ~Exists(fs, p)

\* C6 as amended: when the build is invoked the working directory has no
\* directory and no regular file named build, dist or *.egg-info, and a
\* cleanup step that finds nothing to remove goes on without failing.
C6_StaleDirsAndFilesRemoved ==
    /\ [](pc = "build" => \A p \in CleanTargets : ~IsDir(fs, p) /\ ~IsFile(fs, p))
    /\ [][pc = "clean" /\ CleanTargets = {}
            => pc' \in {"clean", "build"} /\ fs' = fs /\ status' = NoStatus]_vars

\* The build is about to be invoked after a stale dist/ holding a wheel, a
\* stale build/ and a stale egg-info file were removed.
C6_Witness ==
    /\ pc = "build"
    /\ \E j \in Events("rm") : log[j].path = DistP /\ log[j].n > 0
    /\ \E j \in Events("rm") : log[j].path = BuildP
    /\ \E j \in Events("rm") : log[j].path = EggP

\* C7: pip is invoked for the dependencies in listed order, at most once
\* each and all of them before build_wheel starts; every invocation but the
\* last one made has exited 0; and once an invocation has exited non-zero
\* the run is over with exit status 1, that invocation being the last thing
\* the run did: no cleanup, no build, no copy.
C7_InstallsInOrderFailFast ==
    /\ Len(PipCalls) <= Len(Dependencies)
    /\ \A j \in 1..Len(PipCalls) :
          /\ PipCalls[j].name = Dependencies[j]
          /\ j < Len(PipCalls) => PipCalls[j].n = 0
    /\ pc \in {"mkdir", "clean", "build", "find", "copy", "report"} => InstallsSucceeded
    /\ \A j \in Events("pip") :
          log[j].n # 0 =>
              /\ j = Len(log)
              /\ pc = "exit"
              /\ status = 1
              /\ Events("mkdir") \cup Events("rm") \cup Events("build") \cup Events("copy") = {}

\* The third pip invocation failed after two that succeeded.
C7_Witness ==
    /\ Len(PipCalls) = 3
    /\ PipCalls[3].n # 0
    /\ PipCalls[3].name = "ninja"
    /\ pc = "exit"

\* The phase changes of one run that the state machine of the
\* specification allows.
PhaseOrder ==
    { <<"START", "CHECKING">>, <<"CHECKING", "INSTALLING">>,
      <<"INSTALLING", "BUILDING">>, <<"BUILDING", "DONE">> }

SamePhase == {<<ph, ph>> : ph \in {"START", "CHECKING", "INSTALLING", "BUILDING", "DONE", "FAILED"}}

\* C8 as stated: a run with an output directory changes phase only along
\* CHECKING, INSTALLING, BUILDING, DONE, or to FAILED from INSTALLING or
\* BUILDING; nothing leaves DONE or FAILED.
C8_FailedOnlyFromInstallOrBuild ==
    [][HasArg /\ run' = run =>
         <<Phase, Phase'>> \in PhaseOrder \cup SamePhase
              \cup {<<"INSTALLING", "FAILED">>, <<"BUILDING", "FAILED">>}]_vars

\* C8 as amended: FAILED is entered from CHECKING as well.
C8_PhaseOrderWithCheckFailure ==
    [][HasArg /\ run' = run =>
         <<Phase, Phase'>> \in PhaseOrder \cup SamePhase
              \cup {<<"CHECKING", "FAILED">>, <<"INSTALLING", "FAILED">>,
                    <<"BUILDING", "FAILED">>}]_vars

\* The run failed in CHECKING: torch could not be imported.
C8_Witness ==
    /\ HasArg
    /\ Phase = "FAILED"
    /\ Len(log) = 1
    /\ log[1] = Ev("check", <<>>, "torch", 0)

\* C9: whenever a wheel is about to be copied, the output directory exists
\* and the list of wheels found holds the wheel.
C9_OutputDirExistsAtCopy ==
    pc = "copy" =>
        /\ IsDir(fs, OutputPath)
        /\ Len(wheels) >= 1
        /\ wi \in 1..Len(wheels)

\* C10: every wheel the run has copied was written by the build of this
\* run, and every wheel found after the build is one of this run.
C10_CopiedWheelsAreFresh ==
    /\ \A j \in Events("copy") : log[j].n = run
    /\ \A j \in 1..Len(wheels) : pc \in {"copy", "report"} => fs[wheels[j]].data = run

\* A wheel was copied in a run whose cleanup had removed a dist/ that held
\* a wheel from before the run.
C10_Witness ==
    /\ Events("copy") # {}
    /\ \E j \in Events("rm") : log[j].path = DistP /\ log[j].n > 0

====
